---- MODULE Spec2Model ----
(***************************************************************************)
(* Model of homework.py: a polling bot that fetches homework statuses,     *)
(* validates the response, formats the first record and sends it to a      *)
(* Telegram chat, with a last_error memo for error notifications.          *)
(*                                                                         *)
(* The Russian message texts of the source are rendered in ASCII; each     *)
(* distinct source text has one distinct rendering.                        *)
(***************************************************************************)
EXTENDS Integers, Sequences, FiniteSets, TLC

(* ------------------------------ bounds --------------------------------- *)
MaxIter == 3        \* loop iterations explored
MaxHomeworks == 2   \* longest homeworks list in a response
MaxDate == 1        \* current_date integers are 0..MaxDate
StartTime == 1000   \* int(time.time()) when the process starts

(* ------------------------- program constants --------------------------- *)
RETRY_TIME == 600
ENDPOINT == "https://practicum.yandex.ru/api/user_api/homework_statuses/"
HTTP_OK == 200

\* HOMEWORK_VERDICTS, homework.py:35-39
HOMEWORK_VERDICTS ==
    [approved  |-> "Work checked: the reviewer liked everything. Hooray!",
     reviewing |-> "Work taken for review by the reviewer.",
     rejected  |-> "Work checked: the reviewer has remarks."]

(* --------------------------- JSON values ------------------------------- *)
\* Decoded values carry their Python type in field t.  AbsentV stands for
\* "the key is not in the mapping"; NoneV is Python's None, which is also
\* what JSON null decodes to.
AbsentV == [t |-> "absent"]
NoneV == [t |-> "NoneType"]
IntV(n) == [t |-> "int", v |-> n]
StrV(s) == [t |-> "str", s |-> s]
ListV(q) == [t |-> "list", items |-> q]

Names == {"hw1", "hw2"}
Statuses == {"approved", "reviewing", "rejected", "bogus"}

\* A field of a list element: absent, null, a string, a number or an array.
NameValues == {StrV(n) : n \in Names} \cup {AbsentV, NoneV, IntV(0), ListV(<<>>)}
StatusValues == {StrV(s) : s \in Statuses} \cup {AbsentV, NoneV, IntV(0), ListV(<<>>)}

Homework(name, status) ==
    [t |-> "dict", homework_name |-> name, status |-> status]

\* Every mapping a homeworks list may carry.
HomeworkMappings == { Homework(n, s) : n \in NameValues, s \in StatusValues }

\* The list elements used in the polling loop: one per formatter outcome,
\* and one element that is not a mapping.
LoopRecords ==
    { Homework(StrV("hw1"), StrV("approved")),
      Homework(StrV("hw2"), StrV("bogus")),
      Homework(AbsentV, StrV("rejected")),
      StrV("oops") }

SeqsUpTo(S, n) == UNION { [1..k -> S] : k \in 0..n }

CurrentDates == {IntV(n) : n \in 0..MaxDate} \cup {AbsentV, NoneV, StrV("soon")}

HomeworksValues(recs) ==
    {ListV(q) : q \in SeqsUpTo(recs, MaxHomeworks)} \cup {AbsentV, NoneV, StrV("oops")}

Response(cd, hws) == [t |-> "dict", current_date |-> cd, homeworks |-> hws]

\* Decoded bodies: every mapping over the given list elements, and one
\* top-level value that is not a mapping (a JSON array).
ResponseValues(recs) ==
    { Response(cd, hws) : cd \in CurrentDates, hws \in HomeworksValues(recs) }
        \cup {ListV(<<>>)}

\* type(x) as it appears in an f-string
TypeName(x) == <<"<class '", x.t, "'>">>

\* dict.get(key): None when the key is absent, else the stored value.
Get(d, key) == IF d[key].t = "absent" THEN NoneV ELSE d[key]

\* dict.get(key, default): the default only when the key is absent.
MutGetDefaultIgnoresKey(d, key, default) == default

MutGetWithoutDefault(d, key, default) ==
    IF d[key].t = "absent" THEN NoneV ELSE d[key]

GetDefault(d, key, default) == IF d[key].t = "absent" THEN default ELSE d[key]

(* ---------------------------- exceptions ------------------------------- *)
\* exceptions.py: CurrentDateError and TelegramMessageError derive from
\* NoMessageToTelegram; JSONError and RequestAPIError derive from Exception.
MutCurrentDateErrorNotifiable == {"NoMessageToTelegram", "TelegramMessageError"}

MutTelegramMessageErrorNotifiable == {"NoMessageToTelegram", "CurrentDateError"}

NoMessageToTelegram == {"NoMessageToTelegram", "CurrentDateError", "TelegramMessageError"}

\* requests.exceptions.RequestException and its subclasses that a call can
\* raise.  RequestsJSONDecodeError is requests.exceptions.JSONDecodeError,
\* which derives from both RequestException and json's JSONDecodeError.
RequestException == {"ConnectionError", "HTTPError", "RequestsJSONDecodeError"}
JSONDecodeError == {"JSONDecodeError", "RequestsJSONDecodeError"}

\* Outcome of a function call: a returned value or a raised exception.
Ok(v) == [ok |-> TRUE, val |-> v]
Raise(cls, msg) == [ok |-> FALSE, cls |-> cls, msg |-> msg]

\* An exception object: class, argument and the identity of the object.
Exc(cls, msg, id) == [t |-> "exc", cls |-> cls, msg |-> msg, id |-> id]

\* str(error): KeyError shows the repr of its argument, the others the
\* argument itself.
Str(cls, msg) == IF cls = "KeyError" THEN <<"'">> \o msg \o <<"'">> ELSE msg

MutNoneNeverDiffers(a, b) ==
    IF a.t = "NoneType" \/ b.t = "NoneType" THEN FALSE ELSE a.id # b.id

\* last_error != error (homework.py:141).  Exception defines no __eq__, so
\* the comparison is by object identity.
NotEqual(a, b) ==
    IF a.t = "NoneType" \/ b.t = "NoneType" THEN a.t # b.t ELSE a.id # b.id

(* --------------------------- pure functions ---------------------------- *)
\* What the remote endpoint may do with one GET: the call raises a
\* transport-level RequestException, or it returns a reply with a status
\* code and a body.  A body is a decoded JSON value, or it is malformed and
\* .json() raises the decoder's exception, whose class depends on the
\* installed requests version.
NonOKCodes == {404, 500}
Malformed(cls) == [t |-> "malformed", raises |-> cls]
Transport == [t |-> "outcome", kind |-> "transport"]
Reply(code, body) ==
    [t |-> "outcome", kind |-> "reply", status_code |-> code, body |-> body]

FetchOutcomes(recs) ==
    {Transport}
        \cup { Reply(c, Malformed("JSONDecodeError")) : c \in NonOKCodes }
        \cup { Reply(HTTP_OK, Malformed(cls)) : cls \in JSONDecodeError }
        \cup { Reply(HTTP_OK, b) : b \in ResponseValues(recs) }

\* homework_statuses.json()
Json(body) ==
    IF body.t = "malformed" THEN Raise(body.raises, <<"Expecting value">>)
    ELSE Ok(body)

MutStatusCheckOutsideTry(outcome) ==
    LET tried ==
            IF outcome.kind = "transport"
            THEN Raise("ConnectionError", <<"Connection refused">>)
            ELSE IF outcome.status_code # HTTP_OK
            THEN Raise("HTTPError",
                       <<"Endpoint ", ENDPOINT, " is unavailable.",
                         "Response code: ", ToString(outcome.status_code)>>)
            ELSE Json(outcome.body)
    IN  IF tried.ok \/ tried.cls = "HTTPError" THEN tried
        ELSE IF tried.cls \in RequestException
        THEN Raise("RequestAPIError",
                   <<"Error requesting the main API: ">> \o tried.msg)
        ELSE IF tried.cls \in JSONDecodeError
        THEN Raise("JSONError", <<"Error decoding JSON: ">> \o tried.msg)
        ELSE tried

\* get_api_answer: the try body (homework.py:69-74) and the two except
\* clauses, tried in order (homework.py:75-78).
get_api_answer(outcome) ==
    LET tried ==
            IF outcome.kind = "transport"
            THEN Raise("ConnectionError", <<"Connection refused">>)
            ELSE IF outcome.status_code # HTTP_OK
            THEN Raise("HTTPError",
                       <<"Endpoint ", ENDPOINT, " is unavailable.",
                         "Response code: ", ToString(outcome.status_code)>>)
            ELSE Json(outcome.body)
    IN  IF tried.ok THEN tried
        ELSE IF tried.cls \in RequestException
        THEN Raise("RequestAPIError",
                   <<"Error requesting the main API: ">> \o tried.msg)
        ELSE IF tried.cls \in JSONDecodeError
        THEN Raise("JSONError", <<"Error decoding JSON: ">> \o tried.msg)
        ELSE tried

MutCurrentDateCheckedLast(response) ==
    IF response.t # "dict"
    THEN Raise("TypeError",
               <<"API response is ">> \o TypeName(response) \o <<" instead of dict">>)
    ELSE LET homeworks == Get(response, "homeworks")
         IN  IF homeworks.t = "NoneType"
             THEN Raise("KeyError", <<"API response lacks key homework">>)
             ELSE IF homeworks.t # "list"
             THEN Raise("TypeError",
                        <<"In API response homework is ">> \o TypeName(homeworks)
                            \o <<" instead of list">>)
             ELSE IF Get(response, "current_date").t = "NoneType"
             THEN Raise("CurrentDateError", <<"API response lacks key current_date">>)
             ELSE Ok(homeworks)

MutHomeworksCheckedFirst(response) ==
    IF response.t # "dict"
    THEN Raise("TypeError",
               <<"API response is ">> \o TypeName(response) \o <<" instead of dict">>)
    ELSE LET homeworks == Get(response, "homeworks")
         IN  IF homeworks.t = "NoneType"
             THEN Raise("KeyError", <<"API response lacks key homework">>)
             ELSE IF Get(response, "current_date").t = "NoneType"
             THEN Raise("CurrentDateError", <<"API response lacks key current_date">>)
             ELSE IF homeworks.t # "list"
             THEN Raise("TypeError",
                        <<"In API response homework is ">> \o TypeName(homeworks)
                            \o <<" instead of list">>)
             ELSE Ok(homeworks)

\* check_response (homework.py:81-97)
check_response(response) ==
    IF response.t # "dict"
    THEN Raise("TypeError",
               <<"API response is ">> \o TypeName(response) \o <<" instead of dict">>)
    ELSE IF Get(response, "current_date").t = "NoneType"
    THEN Raise("CurrentDateError", <<"API response lacks key current_date">>)
    ELSE LET homeworks == Get(response, "homeworks")
         IN  IF homeworks.t = "NoneType"
             THEN Raise("KeyError", <<"API response lacks key homework">>)
             ELSE IF homeworks.t # "list"
             THEN Raise("TypeError",
                        <<"In API response homework is ">> \o TypeName(homeworks)
                            \o <<" instead of list">>)
             ELSE Ok(homeworks)

\* str(x) inside an f-string
Show(x) ==
    IF x.t = "str" THEN x.s
    ELSE IF x.t = "NoneType" THEN "None"
    ELSE x.t

\* Types that cannot be tested for membership in a dict.
Unhashable == {"list", "dict"}

MutNoStatusCheck(homework) ==
    IF homework.t # "dict"
    THEN Raise("AttributeError",
               <<"'", homework.t, "' object has no attribute 'get'">>)
    ELSE LET homework_name == Get(homework, "homework_name")
             homework_status == Get(homework, "status")
         IN  IF homework_name.t = "NoneType"
             THEN Raise("KeyError", <<"API response lacks key homework_name">>)
             ELSE IF homework_status.t \in Unhashable
             THEN Raise("TypeError",
                        <<"unhashable type: '", homework_status.t, "'">>)
             ELSE IF ~(homework_status.t = "str"
                       /\ homework_status.s \in DOMAIN HOMEWORK_VERDICTS)
             THEN Raise("KeyError", <<Show(homework_status)>>)
             ELSE LET verdict == HOMEWORK_VERDICTS[homework_status.s]
                  IN  Ok(<<"Homework review status changed \"",
                           Show(homework_name), "\". ", verdict>>)

\* parse_status (homework.py:100-109).  A list element that is not a
\* mapping has no .get: AttributeError at line 102.
parse_status(homework) ==
    IF homework.t # "dict"
    THEN Raise("AttributeError",
               <<"'", homework.t, "' object has no attribute 'get'">>)
    ELSE LET homework_name == Get(homework, "homework_name")
             homework_status == Get(homework, "status")
         IN  IF homework_name.t = "NoneType"
             THEN Raise("KeyError", <<"API response lacks key homework_name">>)
             ELSE IF homework_status.t \in Unhashable
             THEN Raise("TypeError",
                        <<"unhashable type: '", homework_status.t, "'">>)
             ELSE IF ~(homework_status.t = "str"
                       /\ homework_status.s \in DOMAIN HOMEWORK_VERDICTS)
             THEN Raise("KeyError",
                        <<"Status ", Show(homework_status), " not found">>)
             ELSE LET verdict == HOMEWORK_VERDICTS[homework_status.s]
                  IN  Ok(<<"Homework review status changed \"",
                           Show(homework_name), "\". ", verdict>>)

\* homeworks[0] (homework.py:135); sequences here are indexed from 1.
MutLastIndex(q) == Len(q)

FirstIndex(q) == 1

\* send_message (homework.py:51-58): bot.send_message returns, or raises a
\* TelegramError that is re-raised as TelegramMessageError.
send_message(message, delivered) ==
    IF delivered THEN Ok(NoneV)
    ELSE Raise("TelegramMessageError", <<"Error sending message: ", "Timed out">>)

\* check_tokens (homework.py:112-114): truthiness of the and-chain; None
\* and the empty string are falsy.
Truthy(token) == token.t = "str" /\ token.s # ""

MutChatIdNotChecked(practicum, telegram, chat_id) ==
    Truthy(practicum) /\ Truthy(telegram)

check_tokens(practicum, telegram, chat_id) ==
    Truthy(practicum) /\ Truthy(telegram) /\ Truthy(chat_id)

(* ------------------------------ state ---------------------------------- *)
VARIABLES
    PRACTICUM_TOKEN, TELEGRAM_TOKEN, TELEGRAM_CHAT_ID,  \* os.getenv results
    pc,                \* position in main
    clock,             \* int(time.time()); only time.sleep is taken to take time
    iter,              \* number of the running loop iteration, 0 before the loop
    current_timestamp, \* the cursor passed as from_date
    last_error,        \* the memo of the last notified exception
    response,          \* local of main
    homeworks,         \* local of main
    error,             \* the exception bound by the except clause that ran
    handler,           \* which except clause ran in this iteration
    raised,            \* an exception propagating out of an except clause
    outcome,           \* what the endpoint did with this iteration's GET
    chat,              \* bot.send_message calls of this iteration
    log,               \* logger calls of this iteration
    formatted,         \* indices of the list elements passed to parse_status
    begin,             \* current_timestamp and last_error when the iteration began
    prev,              \* summary of the previous iteration
    fetches,           \* requests.get calls made so far
    sleeps,            \* time.sleep calls made so far
    notified,          \* the exception of the last delivered error notification
    call, result       \* a single call of one function, and what it gave

env == <<PRACTICUM_TOKEN, TELEGRAM_TOKEN, TELEGRAM_CHAT_ID>>
locals == <<response, homeworks, error, handler, raised>>
history == <<outcome, chat, log, formatted, begin, prev>>
loopvars == <<pc, clock, iter, current_timestamp, last_error>>
counters == <<fetches, sleeps, notified>>
vars == <<env, loopvars, locals, history, counters, call, result>>

TokenValues == {NoneV, StrV(""), StrV("secret")}
Pending == [ok |-> FALSE, cls |-> "<pending>", msg |-> <<>>]
NoPrev == [mode |-> "none", handler |-> "none", error |-> NoneV, sends |-> 0]

Snapshot == [cursor |-> current_timestamp, last_error |-> last_error]

TypeOfIdle ==
    /\ response = NoneV /\ homeworks = NoneV /\ error = NoneV
    /\ handler = "none" /\ raised = NoneV /\ outcome = NoneV
    /\ chat = <<>> /\ log = <<>> /\ formatted = {}

Init ==
    /\ PRACTICUM_TOKEN \in TokenValues
    /\ TELEGRAM_TOKEN \in TokenValues
    /\ TELEGRAM_CHAT_ID \in TokenValues
    /\ pc = "start"
    /\ clock = StartTime
    /\ iter = 0
    /\ current_timestamp = NoneV
    /\ last_error = NoneV
    /\ TypeOfIdle
    /\ begin = [cursor |-> NoneV, last_error |-> NoneV]
    /\ prev = NoPrev
    /\ fetches = 0 /\ sleeps = 0 /\ notified = NoneV
    /\ call = NoneV
    /\ result = Pending

(* ----------------------------- main ------------------------------------ *)
\* How the endpoint failed, if it did.
FailureMode(o) ==
    IF o.t = "NoneType" THEN "none"
    ELSE IF o.kind = "transport" THEN "transport"
    ELSE IF o.status_code # HTTP_OK THEN "status"
    ELSE IF o.body.t = "malformed" THEN "malformed"
    ELSE "none"

\* An exception raised in the try body at homework.py:131-135 is matched
\* against the except clauses in order (homework.py:136, 138).
Dispatch(r) ==
    /\ error' = Exc(r.cls, r.msg, iter)
    /\ pc' = IF r.cls \in NoMessageToTelegram THEN "except_nomsg" ELSE "except_exc"

\* homework.py:119-128
Start ==
    /\ pc = "start"
    /\ IF ~check_tokens(PRACTICUM_TOKEN, TELEGRAM_TOKEN, TELEGRAM_CHAT_ID)
       THEN /\ pc' = "exited"
            /\ log' = [i \in 1..Cardinality({k \in 1..3 : ~Truthy(env[k])}) |->
                          [level |-> "CRITICAL",
                           msg |-> <<"Missing environment variable">>]]
            /\ UNCHANGED <<iter, current_timestamp, last_error, begin>>
       ELSE /\ pc' = "fetch"
            /\ iter' = 1
            /\ current_timestamp' = IntV(clock)
            /\ last_error' = NoneV
            /\ begin' = [cursor |-> IntV(clock), last_error |-> NoneV]
            /\ log' = log
    /\ UNCHANGED <<env, clock, locals, outcome, chat, formatted, prev, counters,
                   call, result>>

\* homework.py:131
GetApiAnswer ==
    /\ pc = "fetch"
    /\ \E o \in FetchOutcomes(LoopRecords) :
          /\ outcome' = o
          /\ LET r == get_api_answer(o)
             IN  IF r.ok
                 THEN /\ response' = r.val
                      /\ pc' = "cursor"
                      /\ error' = error
                 ELSE /\ Dispatch(r)
                      /\ response' = response
    /\ fetches' = fetches + 1
    /\ UNCHANGED <<env, clock, iter, current_timestamp, last_error, homeworks,
                   handler, raised, chat, log, formatted, begin, prev, sleeps,
                   notified, call, result>>

MutUpdateAfterValidation ==
    /\ pc = "cursor"
    /\ IF response.t # "dict"
       THEN /\ Dispatch(Raise("AttributeError",
                              <<"'", response.t, "' object has no attribute 'get'">>))
            /\ current_timestamp' = current_timestamp
       ELSE /\ current_timestamp' =
                   IF check_response(response).ok
                   THEN GetDefault(response, "current_date", IntV(clock))
                   ELSE current_timestamp
            /\ pc' = "check"
            /\ error' = error
    /\ UNCHANGED <<env, clock, iter, last_error, response, homeworks, handler,
                   raised, history, counters, call, result>>

\* homework.py:132.  A response that is not a mapping has no .get.
UpdateTimestamp ==
    /\ pc = "cursor"
    /\ IF response.t # "dict"
       THEN /\ Dispatch(Raise("AttributeError",
                              <<"'", response.t, "' object has no attribute 'get'">>))
            /\ current_timestamp' = current_timestamp
       ELSE /\ current_timestamp' = GetDefault(response, "current_date", IntV(clock))
            /\ pc' = "check"
            /\ error' = error
    /\ UNCHANGED <<env, clock, iter, last_error, response, homeworks, handler,
                   raised, history, counters, call, result>>

\* homework.py:133
CheckResponse ==
    /\ pc = "check"
    /\ LET r == check_response(response)
       IN  IF r.ok
           THEN /\ homeworks' = r.val
                /\ pc' = "notify"
                /\ error' = error
           ELSE /\ Dispatch(r)
                /\ homeworks' = homeworks
    /\ UNCHANGED <<env, clock, iter, current_timestamp, last_error, response,
                   handler, raised, history, counters, call, result>>

Info == [level |-> "INFO", msg |-> <<"Message sent to telegram">>]

\* homework.py:134-135
NotifyHomework ==
    /\ pc = "notify"
    /\ IF Len(homeworks.items) > 0
       THEN LET i == FirstIndex(homeworks.items)
                text == parse_status(homeworks.items[i])
            IN  /\ formatted' = formatted \cup {i}
                /\ IF text.ok
                   THEN \E delivered \in BOOLEAN :
                          LET sent == send_message(text.val, delivered)
                          IN  /\ chat' = Append(chat, [msg |-> text.val,
                                                       delivered |-> delivered])
                              /\ IF sent.ok
                                 THEN /\ log' = Append(log, Info)
                                      /\ pc' = "finally"
                                      /\ error' = error
                                 ELSE /\ Dispatch(sent)
                                      /\ log' = log
                   ELSE /\ Dispatch(text)
                        /\ UNCHANGED <<chat, log>>
       ELSE /\ pc' = "finally"
            /\ UNCHANGED <<error, chat, log, formatted>>
    /\ UNCHANGED <<env, clock, iter, current_timestamp, last_error, response,
                   homeworks, handler, raised, outcome, begin, prev, counters,
                   call, result>>

Failure(e) == <<"Program failure: ">> \o Str(e.cls, e.msg)

\* homework.py:136-137
ExceptNoMessage ==
    /\ pc = "except_nomsg"
    /\ handler' = "NoMessageToTelegram"
    /\ log' = Append(log, [level |-> "ERROR", msg |-> Failure(error)])
    /\ pc' = "finally"
    /\ UNCHANGED <<env, clock, iter, current_timestamp, last_error, response,
                   homeworks, error, raised, outcome, chat, formatted, begin,
                   prev, counters, call, result>>

MutMemoBeforeSend ==
    /\ pc = "except_exc"
    /\ handler' = "Exception"
    /\ pc' = "finally"
    /\ LET message == Failure(error)
           logged == Append(log, [level |-> "ERROR", msg |-> message])
       IN  IF NotEqual(last_error, error)
           THEN \E delivered \in BOOLEAN :
                  LET sent == send_message(message, delivered)
                  IN  /\ chat' = Append(chat, [msg |-> message,
                                               delivered |-> delivered])
                      /\ last_error' = error
                      /\ IF sent.ok
                         THEN /\ log' = Append(logged, Info)
                              /\ notified' = error
                              /\ raised' = raised
                         ELSE /\ log' = logged
                              /\ notified' = notified
                              /\ raised' = Exc(sent.cls, sent.msg, iter)
           ELSE /\ log' = logged
                /\ UNCHANGED <<chat, last_error, raised, notified>>
    /\ UNCHANGED <<env, clock, iter, current_timestamp, response, homeworks,
                   error, outcome, formatted, begin, prev, fetches, sleeps,
                   call, result>>

\* homework.py:138-143.  An exception raised by send_message here is raised
\* inside an except clause, so no except clause of this try catches it.
ExceptException ==
    /\ pc = "except_exc"
    /\ handler' = "Exception"
    /\ pc' = "finally"
    /\ LET message == Failure(error)
           logged == Append(log, [level |-> "ERROR", msg |-> message])
       IN  IF NotEqual(last_error, error)
           THEN \E delivered \in BOOLEAN :
                  LET sent == send_message(message, delivered)
                  IN  /\ chat' = Append(chat, [msg |-> message,
                                               delivered |-> delivered])
                      /\ IF sent.ok
                         THEN /\ log' = Append(logged, Info)
                              /\ notified' = error
                              /\ last_error' = error
                              /\ raised' = raised
                         ELSE /\ log' = logged
                              /\ notified' = notified
                              /\ last_error' = last_error
                              /\ raised' = Exc(sent.cls, sent.msg, iter)
           ELSE /\ log' = logged
                /\ UNCHANGED <<chat, last_error, raised, notified>>
    /\ UNCHANGED <<env, clock, iter, current_timestamp, response, homeworks,
                   error, outcome, formatted, begin, prev, fetches, sleeps,
                   call, result>>

\* Number of chat calls that carry the failure text of exception e.
Sends(q, e) ==
    IF e.t = "NoneType" THEN 0
    ELSE Cardinality({k \in 1..Len(q) : q[k].msg = Failure(e)})

MutSleepOnlyAfterFailure ==
    /\ pc = "finally"
    /\ clock' = IF handler = "none" THEN clock ELSE clock + RETRY_TIME
    /\ sleeps' = IF handler = "none" THEN sleeps ELSE sleeps + 1
    /\ IF raised.t # "NoneType"
       THEN /\ pc' = "crashed"
            /\ UNCHANGED <<iter, locals, history>>
       ELSE /\ iter < MaxIter
            /\ pc' = "fetch"
            /\ iter' = iter + 1
            /\ prev' = [mode |-> FailureMode(outcome), handler |-> handler,
                        error |-> error, sends |-> Sends(chat, error)]
            /\ begin' = Snapshot
            /\ response' = NoneV /\ homeworks' = NoneV /\ error' = NoneV
            /\ handler' = "none" /\ raised' = NoneV /\ outcome' = NoneV
            /\ chat' = <<>> /\ log' = <<>> /\ formatted' = {}
    /\ UNCHANGED <<env, current_timestamp, last_error, fetches, notified,
                   call, result>>

\* homework.py:144-145, then either the exception that is propagating
\* leaves main, or the while loop starts its next iteration.
Finally ==
    /\ pc = "finally"
    /\ clock' = clock + RETRY_TIME
    /\ sleeps' = sleeps + 1
    /\ IF raised.t # "NoneType"
       THEN /\ pc' = "crashed"
            /\ UNCHANGED <<iter, locals, history>>
       ELSE /\ iter < MaxIter
            /\ pc' = "fetch"
            /\ iter' = iter + 1
            /\ prev' = [mode |-> FailureMode(outcome), handler |-> handler,
                        error |-> error, sends |-> Sends(chat, error)]
            /\ begin' = Snapshot
            /\ response' = NoneV /\ homeworks' = NoneV /\ error' = NoneV
            /\ handler' = "none" /\ raised' = NoneV /\ outcome' = NoneV
            /\ chat' = <<>> /\ log' = <<>> /\ formatted' = {}
    /\ UNCHANGED <<env, current_timestamp, last_error, fetches, notified,
                   call, result>>

Next ==
    \/ Start
    \/ GetApiAnswer
    \/ UpdateTimestamp
    \/ CheckResponse
    \/ NotifyHomework
    \/ ExceptNoMessage
    \/ ExceptException
    \/ Finally

Spec == Init /\ [][Next]_vars

(* ----------------------- single function calls ------------------------- *)
\* One call of check_response or parse_status on one decoded value, with
\* main not running.
Calls ==
    { [t |-> "call", fn |-> "check_response", arg |-> r] :
          r \in ResponseValues(LoopRecords) }
        \cup { [t |-> "call", fn |-> "parse_status", arg |-> h] :
                   h \in HomeworkMappings \cup {StrV("oops")} }

IsPending(r) == ~r.ok /\ r.cls = "<pending>"

InitCalls ==
    /\ PRACTICUM_TOKEN = StrV("secret")
    /\ TELEGRAM_TOKEN = StrV("secret")
    /\ TELEGRAM_CHAT_ID = StrV("secret")
    /\ pc = "idle"
    /\ clock = StartTime
    /\ iter = 0
    /\ current_timestamp = NoneV
    /\ last_error = NoneV
    /\ TypeOfIdle
    /\ begin = [cursor |-> NoneV, last_error |-> NoneV]
    /\ prev = NoPrev
    /\ fetches = 0 /\ sleeps = 0 /\ notified = NoneV
    /\ call \in Calls
    /\ result = Pending

CallCheckResponse ==
    /\ call.fn = "check_response"
    /\ IsPending(result)
    /\ result' = check_response(call.arg)
    /\ UNCHANGED <<env, loopvars, locals, history, counters, call>>

CallParseStatus ==
    /\ call.fn = "parse_status"
    /\ IsPending(result)
    /\ result' = parse_status(call.arg)
    /\ UNCHANGED <<env, loopvars, locals, history, counters, call>>

NextCalls == CallCheckResponse \/ CallParseStatus

SpecCalls == InitCalls /\ [][NextCalls]_vars

(* ------------------------------ claims --------------------------------- *)
Same(a, b) == a.t = b.t /\ a = b
Contains(msg, x) == \E k \in 1..Len(msg) : msg[k] = x
Returned(fn) == call.t = "call" /\ call.fn = fn /\ ~IsPending(result)
Fails(r, cls) == ~r.ok /\ r.cls = cls

\* C1: when two consecutive iterations both fail with a notifiable error of
\* the same string representation, the chat is sent that error at most once
\* across the two iterations.
C1_Deduplication ==
    (/\ pc = "finally"
     /\ prev.handler = "Exception"
     /\ handler = "Exception"
     /\ Str(prev.error.cls, prev.error.msg) = Str(error.cls, error.msg))
        => prev.sends + Sends(chat, error) <= 1

\* C2: the loop never terminates after startup: no exception leaves main,
\* also when the notification about an error fails to be delivered.
C2_LoopNeverTerminates == pc # "crashed"

\* C3 as stated: after an iteration whose response is a mapping without a
\* current_date key, the cursor is what it was before the iteration.
C3_CursorKept ==
    (pc = "finally" /\ response.t = "dict" /\ response.current_date.t = "absent")
        => Same(current_timestamp, begin.cursor)

\* C3 as amended: after an iteration whose response is a mapping without a
\* current_date key, the cursor is the clock time read in that iteration.
C3_CursorBecomesNow ==
    (pc = "finally" /\ response.t = "dict" /\ response.current_date.t = "absent")
        => Same(current_timestamp, IntV(clock))

C3_Witness ==
    /\ pc = "finally" /\ iter = 2
    /\ response.t = "dict" /\ response.current_date.t = "absent"
    /\ begin.cursor.t = "int" /\ begin.cursor.v <= MaxDate
    /\ current_timestamp.t = "int" /\ current_timestamp.v > StartTime

\* C4: when the try body of an iteration fails with CurrentDateError or
\* TelegramMessageError, the error is handled by the log-only clause: the
\* chat is sent nothing about it, last_error keeps its value and the error
\* is logged.
C4_NonNotifiableLogOnly ==
    (/\ pc = "finally"
     /\ error.t = "exc"
     /\ error.cls \in {"CurrentDateError", "TelegramMessageError"})
        => /\ handler = "NoMessageToTelegram"
           /\ Sends(chat, error) = 0
           /\ Same(last_error, begin.last_error)
           /\ \E k \in 1..Len(log) :
                 log[k] = [level |-> "ERROR", msg |-> Failure(error)]

C4_Witness ==
    /\ pc = "finally"
    /\ error.t = "exc" /\ error.cls = "TelegramMessageError"
    /\ Len(chat) = 1 /\ ~chat[1].delivered
    /\ last_error.t = "exc"

\* C5 as stated: two different failure modes of the fetch (non-OK status,
\* transport failure, malformed body) never give the same kind of error.
C5_DistinctKinds ==
    (/\ pc = "finally"
     /\ prev.mode # "none"
     /\ FailureMode(outcome) # "none"
     /\ prev.mode # FailureMode(outcome))
        => prev.error.cls # error.cls

\* C5 as amended: a non-OK status gives a RequestAPIError whose message
\* carries the endpoint URL and the status code; a transport failure gives a
\* RequestAPIError too; a malformed body gives a JSONError when the decoder
\* raises json's JSONDecodeError and a RequestAPIError when it raises the
\* JSONDecodeError of requests, which is a RequestException.
C5_Classification ==
    (pc = "finally" /\ FailureMode(outcome) # "none")
        => /\ error.t = "exc"
           /\ FailureMode(outcome) = "status" =>
                 /\ error.cls = "RequestAPIError"
                 /\ Contains(error.msg, ENDPOINT)
                 /\ Contains(error.msg, ToString(outcome.status_code))
           /\ FailureMode(outcome) = "transport" => error.cls = "RequestAPIError"
           /\ FailureMode(outcome) = "malformed" =>
                 error.cls = IF outcome.body.raises = "JSONDecodeError"
                             THEN "JSONError" ELSE "RequestAPIError"

C5_Witness ==
    /\ pc = "finally"
    /\ prev.mode = "transport"
    /\ FailureMode(outcome) = "status"
    /\ error.cls = "RequestAPIError"

\* C6 as stated, a key that holds null being a key that is present: a
\* value that is not a mapping fails with TypeError; a mapping without
\* current_date fails with CurrentDateError; a mapping without homeworks
\* fails with KeyError; a mapping whose homeworks is present but not a list
\* fails with TypeError; otherwise the homeworks list is returned unchanged.
C6_ValidatorOutcomes ==
    Returned("check_response") =>
        LET r == call.arg
        IN  IF r.t # "dict" THEN Fails(result, "TypeError")
            ELSE IF r.current_date.t = "absent"
            THEN Fails(result, "CurrentDateError")
            ELSE IF r.homeworks.t = "absent" THEN Fails(result, "KeyError")
            ELSE IF r.homeworks.t # "list" THEN Fails(result, "TypeError")
            ELSE result.ok /\ result.val = r.homeworks

\* C6 as amended: a value that is not a mapping fails with TypeError; a
\* mapping whose current_date is absent or null fails with CurrentDateError;
\* otherwise a mapping whose homeworks is absent or null fails with KeyError;
\* otherwise a mapping whose homeworks is not a list fails with TypeError;
\* otherwise the homeworks list is returned unchanged.
C6_ValidatorOutcomesNullAsAbsent ==
    Returned("check_response") =>
        LET r == call.arg
        IN  IF r.t # "dict" THEN Fails(result, "TypeError")
            ELSE IF r.current_date.t \in {"absent", "NoneType"}
            THEN Fails(result, "CurrentDateError")
            ELSE IF r.homeworks.t \in {"absent", "NoneType"}
            THEN Fails(result, "KeyError")
            ELSE IF r.homeworks.t # "list" THEN Fails(result, "TypeError")
            ELSE result.ok /\ result.val = r.homeworks

C6_Witness ==
    /\ Returned("check_response")
    /\ call.arg.t = "dict"
    /\ call.arg.current_date.t = "int"
    /\ call.arg.homeworks.t = "NoneType"
    /\ Fails(result, "KeyError")

\* C7: for a homework record (a mapping whose name and status are strings
\* when present): with a name and a status among approved, reviewing and
\* rejected the result is the template text with the name and the verdict
\* of that status; without a name it fails with the missing-name KeyError;
\* with a name and a status that is absent or not among the three it fails
\* with the unknown-status KeyError.
IsHomeworkRecord(h) ==
    /\ h.t = "dict"
    /\ h.homework_name.t \in {"str", "absent"}
    /\ h.status.t \in {"str", "absent"}

C7_FormatterOutcomes ==
    (Returned("parse_status") /\ IsHomeworkRecord(call.arg)) =>
        LET h == call.arg
        IN  IF h.homework_name.t = "absent"
            THEN /\ Fails(result, "KeyError")
                 /\ result.msg = <<"API response lacks key homework_name">>
            ELSE IF h.status.t = "str"
                    /\ h.status.s \in {"approved", "reviewing", "rejected"}
            THEN /\ result.ok
                 /\ result.val = <<"Homework review status changed \"",
                                   h.homework_name.s, "\". ",
                                   HOMEWORK_VERDICTS[h.status.s]>>
            ELSE /\ Fails(result, "KeyError")
                 /\ result.msg[1] = "Status " /\ result.msg[3] = " not found"

C7_Witness ==
    /\ Returned("parse_status")
    /\ call.arg = Homework(StrV("hw2"), StrV("rejected"))
    /\ result.ok
    /\ Contains(result.val, "hw2")
    /\ Contains(result.val, "Work checked: the reviewer has remarks.")

\* C8: in an iteration whose validated homeworks list is not empty and
\* whose first element is valid, the chat is sent exactly one message, the
\* text parse_status gives for the first element, and no other element is
\* passed to parse_status.
C8_OnlyFirstNotified ==
    (/\ pc = "finally"
     /\ homeworks.t = "list"
     /\ Len(homeworks.items) > 0
     /\ parse_status(homeworks.items[1]).ok)
        => /\ Len(chat) = 1
           /\ chat[1].msg = parse_status(homeworks.items[1]).val
           /\ formatted = {1}

C8_Witness ==
    /\ pc = "finally"
    /\ homeworks.t = "list"
    /\ Len(homeworks.items) = 2
    /\ homeworks.items[1] = Homework(StrV("hw1"), StrV("approved"))
    /\ homeworks.items[2] = Homework(StrV("hw2"), StrV("bogus"))
    /\ Len(chat) = 1 /\ chat[1].delivered

\* C9: after an iteration whose response is a mapping with an empty
\* homeworks list and an integer current_date, the chat was sent nothing,
\* no exception was raised, last_error has the value it had and the cursor
\* is the response's current_date.
C9_EmptyPollSilent ==
    (/\ pc = "finally"
     /\ response.t = "dict"
     /\ response.current_date.t = "int"
     /\ response.homeworks.t = "list"
     /\ response.homeworks.items = <<>>)
        => /\ chat = <<>>
           /\ error.t = "NoneType" /\ raised.t = "NoneType" /\ handler = "none"
           /\ Same(last_error, begin.last_error)
           /\ Same(current_timestamp, response.current_date)

C9_Witness ==
    /\ pc = "finally"
    /\ response.t = "dict"
    /\ response.current_date.t = "int"
    /\ response.homeworks.t = "list"
    /\ response.homeworks.items = <<>>
    /\ last_error.t = "exc"
    /\ ~Same(begin.cursor, current_timestamp)

\* C10: when one of the three credentials is None or empty the process
\* exits at startup, with no GET and no chat message; when all three are
\* non-empty it does not exit at startup.
NonEmpty(token) == token.t = "str" /\ token.s # ""

C10_StartupFatal ==
    IF NonEmpty(PRACTICUM_TOKEN) /\ NonEmpty(TELEGRAM_TOKEN)
           /\ NonEmpty(TELEGRAM_CHAT_ID)
    THEN pc # "exited" /\ (pc # "start" => iter >= 1)
    ELSE /\ pc \in {"start", "exited"}
         /\ iter = 0
         /\ outcome.t = "NoneType"
         /\ chat = <<>>

C10_Witness ==
    /\ pc = "exited"
    /\ NonEmpty(PRACTICUM_TOKEN) /\ NonEmpty(TELEGRAM_TOKEN)
    /\ TELEGRAM_CHAT_ID = StrV("")
    /\ Len(log) = 1

\* C11: every iteration makes exactly one GET, and between two consecutive
\* GETs time.sleep(RETRY_TIME) is called exactly once, whatever the earlier
\* iteration did: when iteration n is about to fetch, n - 1 GETs and n - 1
\* sleeps have been made; from its fetch to its sleep, n GETs and n - 1
\* sleeps; and the clock has advanced by RETRY_TIME per sleep.
C11_OneFetchOneSleep ==
    /\ clock = StartTime + RETRY_TIME * sleeps
    /\ pc \in {"start", "exited"} => fetches = 0 /\ sleeps = 0
    /\ pc = "fetch" => fetches = iter - 1 /\ sleeps = iter - 1
    /\ pc \in {"cursor", "check", "notify", "except_nomsg", "except_exc", "finally"}
          => fetches = iter /\ sleeps = iter - 1
    /\ pc = "crashed" => fetches = iter /\ sleeps = iter

C11_Witness ==
    /\ pc = "cursor" /\ iter = 3
    /\ prev.handler = "NoMessageToTelegram"
    /\ fetches = 3 /\ sleeps = 2
    /\ clock = StartTime + 2 * RETRY_TIME

ValueDiffers(a, e) == a.t = "NoneType" \/ a.cls # e.cls \/ a.msg # e.msg

\* C12: when last_error holds a notified error A, the previous iteration
\* succeeded, and this iteration fails with an error of the same value as
\* A, the recurrence is not sent to the chat.
C12_SuppressedAfterSuccess ==
    (/\ pc = "finally"
     /\ handler = "Exception"
     /\ prev.handler = "none"
     /\ ~ValueDiffers(begin.last_error, error))
        => Sends(chat, error) = 0

\* C13: when an iteration fails with a notifiable error whose value differs
\* from last_error, also when last_error is None, the chat is sent exactly
\* one message, the failure text of that error, and when it is delivered
\* last_error becomes that error.
C13_NewErrorReported ==
    (/\ pc = "finally"
     /\ handler = "Exception"
     /\ ValueDiffers(begin.last_error, error))
        => /\ Len(chat) = 1
           /\ chat[1].msg = Failure(error)
           /\ chat[1].delivered => Same(last_error, error)

C13_Witness ==
    /\ pc = "finally" /\ iter = 1
    /\ response.t = "dict"
    /\ response.homeworks.t = "list"
    /\ response.homeworks.items = <<Homework(StrV("hw2"), StrV("bogus"))>>
    /\ error.t = "exc" /\ error.cls = "KeyError"
    /\ Len(chat) = 1 /\ chat[1].delivered
    /\ Same(last_error, error)

\* C14: after an iteration whose fetch returned a mapping with an integer
\* current_date, the cursor is that current_date, also when validation of
\* homeworks, formatting or delivery failed in the iteration.
C14_CursorAdvances ==
    (pc = "finally" /\ response.t = "dict" /\ response.current_date.t = "int")
        => Same(current_timestamp, response.current_date)

C14_Witness ==
    /\ pc = "finally"
    /\ response.t = "dict"
    /\ response.current_date.t = "int"
    /\ response.homeworks.t = "absent"
    /\ handler = "Exception"
    /\ ~Same(begin.cursor, response.current_date)
    /\ Same(current_timestamp, response.current_date)

\* C15: the value passed to get_api_answer as from_date at the start of
\* each iteration is an integer.
C15_CursorIsInteger == pc = "fetch" => current_timestamp.t = "int"

\* C16: in an iteration whose decoded response is not a mapping, the error
\* raised is the TypeError of check_response, it is handled as a notifiable
\* error, and the cursor is unchanged.
C16_NonMappingReachesValidator ==
    (pc = "finally" /\ response.t \notin {"NoneType", "dict"})
        => /\ error.t = "exc"
           /\ handler = "Exception"
           /\ Same(current_timestamp, begin.cursor)
           /\ error.cls = "TypeError"

\* C17: in every state last_error is None or the exception of an error
\* notification that was delivered, and in an iteration whose error
\* notification failed last_error is what it was when the iteration began.
C17_LastErrorWasDelivered ==
    /\ Same(last_error, notified)
    /\ raised.t = "exc" => Same(last_error, begin.last_error)

C17_Witness ==
    /\ pc = "crashed" /\ iter = 2
    /\ raised.t = "exc" /\ raised.cls = "TelegramMessageError"
    /\ Len(chat) = 1 /\ ~chat[1].delivered
    /\ last_error.t = "exc" /\ last_error.id = 1
    /\ error.t = "exc" /\ error.id = 2

\* C18: a mapping response that lacks current_date and also lacks homeworks,
\* or holds a homeworks that is not a list, fails with CurrentDateError, and
\* the iteration that receives it sends nothing to the chat.
C18_MissingCursorFirst ==
    (/\ pc = "finally"
     /\ response.t = "dict"
     /\ response.current_date.t = "absent"
     /\ response.homeworks.t # "list")
        => /\ error.t = "exc"
           /\ error.cls = "CurrentDateError"
           /\ handler = "NoMessageToTelegram"
           /\ chat = <<>>

C18_Witness ==
    /\ pc = "finally" /\ iter = 2
    /\ response.t = "dict"
    /\ response.current_date.t = "absent"
    /\ response.homeworks.t = "str"
    /\ error.t = "exc" /\ error.cls = "CurrentDateError"
    /\ last_error.t = "exc"
    /\ chat = <<>>

\* C19: in one iteration bot.send_message is called at most once: a homework
\* notification, delivered or not, is never followed by an error
\* notification in the same iteration.
C19_AtMostOneDelivery == Len(chat) <= 1

C19_Witness ==
    /\ pc = "finally" /\ iter = 1
    /\ handler = "NoMessageToTelegram"
    /\ error.t = "exc" /\ error.cls = "TelegramMessageError"
    /\ Len(chat) = 1 /\ ~chat[1].delivered
    /\ chat[1].msg = parse_status(Homework(StrV("hw1"), StrV("approved"))).val
    /\ last_error.t = "NoneType"

====
